---- MODULE Spec2Model ----
(***************************************************************************)
(* The provider abstraction, the model factory and the chat loop with its  *)
(* automatic provider switching: src/models/*.py and                       *)
(* src/universal_chatbot.py.                                               *)
(*                                                                         *)
(* Texts (provider ids, error messages, message contents) are sequences of *)
(* one-character strings, so that str.lower() and the substring test of    *)
(* is_quota_error are computed, not assumed.  Model names are opaque       *)
(* strings: the code only stores and compares them.                        *)
(***************************************************************************)
EXTENDS Integers, Sequences, FiniteSets, TLC

----------------------------------------------------------------------------
(* Bounds of the model *)

\* inputs read at the prompt in one session (turns and commands)
MaxInputs == 2
\* interface.max_history is drawn from 0..MaxHistoryCap
MaxHistoryCap == 2
\* turns of a session of the history specification
MaxTurns == 4
\* there interface.max_history is drawn from 0..MaxHistoryDeep
MaxHistoryDeep == 4

----------------------------------------------------------------------------
(* Texts *)

UpperToLower ==
    ("A" :> "a") @@ ("B" :> "b") @@ ("C" :> "c") @@ ("D" :> "d") @@ ("E" :> "e") @@ ("F" :> "f") @@
    ("G" :> "g") @@ ("H" :> "h") @@ ("I" :> "i") @@ ("J" :> "j") @@ ("K" :> "k") @@ ("L" :> "l") @@
    ("M" :> "m") @@ ("N" :> "n") @@ ("O" :> "o") @@ ("P" :> "p") @@ ("Q" :> "q") @@ ("R" :> "r") @@
    ("S" :> "s") @@ ("T" :> "t") @@ ("U" :> "u") @@ ("V" :> "v") @@ ("W" :> "w") @@ ("X" :> "x") @@
    ("Y" :> "y") @@ ("Z" :> "z")

\* str.lower(), character by character
lower(s) == [i \in 1..Len(s) |-> IF s[i] \in DOMAIN UpperToLower THEN UpperToLower[s[i]] ELSE s[i]]

\* Python's `needle in hay` on strings
Contains(hay, needle) ==
    \E i \in 1..(Len(hay) - Len(needle) + 1) : SubSeq(hay, i, i + Len(needle) - 1) = needle

InSeq(x, s) == \E i \in 1..Len(s) : s[i] = x

gemini == <<"g", "e", "m", "i", "n", "i">>
openai == <<"o", "p", "e", "n", "a", "i">>
claude == <<"c", "l", "a", "u", "d", "e">>
groq == <<"g", "r", "o", "q">>
\* ids as an operator may write them in a config file or a register_model call
OpenAICased == <<"O", "p", "e", "n", "A", "I">>
GroqCased == <<"G", "r", "o", "q">>

\* error texts a backend call may fail with
QuotaExceededText == <<"4", "2", "9", " ", "Q", "u", "o", "t", "a", " ", "e", "x", "c", "e", "e", "d", "e",
    "d">>
InvalidRequestText == <<"i", "n", "v", "a", "l", "i", "d", " ", "r", "e", "q", "u", "e", "s", "t", " ", "b",
    "o", "d", "y">>
ErrorTexts == {QuotaExceededText, InvalidRequestText}

\* f"Error: {str(e)}" of the adapters that catch the backend's exception
ErrorPrefix == <<"E", "r", "r", "o", "r", ":", " ">>
\* str() of the AttributeError of `response.content` on a None response
NoneContentText == <<"'", "N", "o", "n", "e", "T", "y", "p", "e", "'", " ", "o", "b", "j", "e", "c", "t",
    " ", "h", "a", "s", " ", "n", "o", " ", "a", "t", "t", "r", "i", "b", "u", "t", "e",
    " ", "'", "c", "o", "n", "t", "e", "n", "t", "'">>
\* what the operator types and what a backend answers: opaque contents
UserText == <<"h", "i">>
ReplyText == <<"h", "e", "l", "l", "o">>

quota_indicators ==
    << <<"q", "u", "o", "t", "a">>,
       <<"r", "a", "t", "e", " ", "l", "i", "m", "i", "t">>,
       <<"4", "2", "9">>,
       <<"e", "x", "c", "e", "e", "d", "e", "d", " ", "y", "o", "u", "r", " ", "c", "u", "r",
         "r", "e", "n", "t", " ", "q", "u", "o", "t", "a">>,
       <<"r", "e", "q", "u", "e", "s", "t", "s", " ", "p", "e", "r", " ", "d", "a", "y">>,
       <<"f", "r", "e", "e", " ", "t", "i", "e", "r">>,
       <<"b", "i", "l", "l", "i", "n", "g", " ", "d", "e", "t", "a", "i", "l", "s">>,
       <<"r", "e", "s", "o", "u", "r", "c", "e", "e", "x", "h", "a", "u", "s", "t", "e", "d">>,
       <<"q", "u", "o", "t", "a", "_", "m", "e", "t", "r", "i", "c">>,
       <<"g", "e", "n", "e", "r", "a", "t", "i", "v", "e", "l", "a", "n", "g", "u", "a", "g",
         "e", ".", "g", "o", "o", "g", "l", "e", "a", "p", "i", "s", ".", "c", "o", "m", "/",
         "g", "e", "n", "e", "r", "a", "t", "e", "_", "c", "o", "n", "t", "e", "n", "t", "_",
         "f", "r", "e", "e", "_", "t", "i", "e", "r", "_", "r", "e", "q", "u", "e", "s", "t",
         "s">>,
       <<"g", "e", "n", "e", "r", "a", "t", "e", "r", "e", "q", "u", "e", "s", "t">>,
       <<"q", "u", "o", "t", "a", "_", "v", "a", "l", "u", "e">> >>

\* UniversalChatBot.is_quota_error
is_quota_error(error_message) ==
    LET error_lower == lower(error_message)
    IN \E k \in 1..Len(quota_indicators) : Contains(error_lower, quota_indicators[k])

----------------------------------------------------------------------------
(* State *)

VARIABLES
    models,                 \* ModelFactory._models: id -> class, in insertion order
    install,                \* per adapter class: can its client be imported and built
    config,                 \* UniversalChatBot.config (provider, model, max_history)
    current_model,          \* UniversalChatBot.current_model
    conversation_history,   \* UniversalChatBot.conversation_history
    message_count,          \* UniversalChatBot.message_count
    pc,                     \* where the program is: "new", "input", "invoke", "exited"
    retry_count,            \* chat_loop's retry_count of the turn in progress
    nextOid,                \* identity of the next adapter object constructed
    inputs,                 \* inputs read so far (numbers the turns)
    attempts,               \* log of the invoke attempts of the turn in progress or
                            \* just ended (emptied when the next input is read)
    preHistory,             \* conversation_history when the current or last turn began
    switches,               \* auto_switch_provider calls that returned True in the turn
    shown,                  \* the response or error panel that ended the last turn
    full,                   \* every message appended to the history, in order
    clean,                  \* no turn has failed and nothing was cleared so far
    last_call,              \* the last call a client made to ModelFactory directly,
                            \* with its outcome (the chat session makes none)
    environ,                \* os.environ: the API key variable of each adapter class
    prompted,               \* per adapter class: getpass prompts shown so far
    fanout                  \* the demo scripts' worker-pool fan-out: workers, futures,
                            \* collected results and the calling thread's position

vars == << models, install, config, current_model, conversation_history,
           message_count, pc, retry_count, nextOid, inputs, attempts,
           preHistory, switches, shown, full, clean, last_call, environ, prompted,
                    fanout >>

Classes == {"GeminiModel", "OpenAIModel", "ClaudeModel", "GroqModel"}

NoneVal == "None"
NoneModel == [cls |-> "None", model_name |-> "None", oid |-> 0]

----------------------------------------------------------------------------
(* src/models: the adapters *)

\* GeminiModel.invoke: the backend's exception is caught and returned as a message
GeminiModel_invoke(b) ==
    IF b.ok THEN [kind |-> "return", content |-> b.text, synth |-> FALSE]
    ELSE [kind |-> "return", content |-> ErrorPrefix \o b.text, synth |-> TRUE]

\* ClaudeModel.invoke: as GeminiModel.invoke
ClaudeModel_invoke(b) ==
    IF b.ok THEN [kind |-> "return", content |-> b.text, synth |-> FALSE]
    ELSE [kind |-> "return", content |-> ErrorPrefix \o b.text, synth |-> TRUE]

\* OpenAIModel.invoke: the backend's exception is re-raised
OpenAIModel_invoke(b) ==
    IF b.ok THEN [kind |-> "return", content |-> b.text, synth |-> FALSE]
    ELSE [kind |-> "raise", content |-> b.text, synth |-> FALSE]

\* GroqModel.invoke: as OpenAIModel.invoke
GroqModel_invoke(b) ==
    IF b.ok THEN [kind |-> "return", content |-> b.text, synth |-> FALSE]
    ELSE [kind |-> "raise", content |-> b.text, synth |-> FALSE]

\* current_model.invoke(...), dispatched on the adapter's class
invoke(cls, b) ==
    CASE cls = "GeminiModel" -> GeminiModel_invoke(b)
      [] cls = "OpenAIModel" -> OpenAIModel_invoke(b)
      [] cls = "ClaudeModel" -> ClaudeModel_invoke(b)
      [] cls = "GroqModel" -> GroqModel_invoke(b)

\* stream of each adapter, the four bodies being the same: what a consumer
\* receives when it iterates the result to exhaustion.  The body contains a
\* `yield`, so the method is a generator function: `return self.model.stream(
\* messages)` ends the generator with the backend's stream as its
\* StopIteration value and yields nothing; only the except branch yields.
stream(cls, b) ==
    IF b.ok THEN << >> ELSE << ErrorPrefix \o b.text >>

\* get_available_models of each adapter: the names of its static catalog
get_available_models(cls) ==
    CASE cls = "GeminiModel" -> << "gemini-1.5-flash", "gemini-1.5-pro", "gemini-2.0-flash-exp" >>
      [] cls = "OpenAIModel" -> << "gpt-3.5-turbo", "gpt-4", "gpt-4-turbo", "gpt-4o" >>
      [] cls = "ClaudeModel" -> << "claude-3-haiku-20240307", "claude-3-sonnet-20240229",
                                   "claude-3-opus-20240229", "claude-3-5-sonnet-20241022" >>
      [] cls = "GroqModel" -> << "llama3-8b-8192", "llama3-70b-8192", "gemma-7b-it",
                                 "llama3-groq-70b-8192-tool-use-preview" >>

\* model_class(model_name=..., **kwargs): __init__ and _setup_model.  OpenAI,
\* Claude and Groq raise ImportError when their client library did not import;
\* any class may fail while building its client.
construct(cls, model_name, oid) ==
    IF install[cls] = "nolib" THEN [kind |-> "ImportError", obj |-> NoneModel]
    ELSE IF install[cls] = "broken" THEN [kind |-> "Exception", obj |-> NoneModel]
    ELSE [kind |-> "ok", obj |-> [cls |-> cls, model_name |-> model_name, oid |-> oid]]

\* the environment variable each adapter class reads its API key from
api_key_variable(cls) ==
    CASE cls = "GeminiModel" -> "GOOGLE_API_KEY"
      [] cls = "OpenAIModel" -> "OPENAI_API_KEY"
      [] cls = "ClaudeModel" -> "ANTHROPIC_API_KEY"
      [] cls = "GroqModel" -> "GROQ_API_KEY"

KeyVariables == {api_key_variable(c) : c \in Classes}

\* `not os.environ.get(KEY)`: the variable is unset or holds the empty string
key_missing(env, key) == env[key] \in {NoneVal, ""}

\* an _ensure_api_key that asks and stores whether or not a key is set
ensure_api_key_always(cls, env, entered) ==
    [environ |-> [env EXCEPT ![api_key_variable(cls)] = entered], prompts |-> 1]

\* _ensure_api_key of each adapter: getpass once when the key is missing, and
\* what was entered is stored
ensure_api_key(cls, env, entered) ==
    IF key_missing(env, api_key_variable(cls))
    THEN [environ |-> [env EXCEPT ![api_key_variable(cls)] = entered], prompts |-> 1]
    ELSE [environ |-> env, prompts |-> 0]

\* the part of model_class(...) that touches the secret store: __init__ of
\* OpenAI, Claude and Groq raises ImportError before _setup_model runs
construct_secret(cls, env, entered) ==
    IF install[cls] = "nolib" THEN [environ |-> env, prompts |-> 0]
    ELSE ensure_api_key(cls, env, entered)

----------------------------------------------------------------------------
(* src/models/model_factory.py *)

HasKey(d, k) == \E i \in 1..Len(d) : d[i].id = k
Lookup(d, k) == d[CHOOSE i \in 1..Len(d) : d[i].id = k].cls
\* a registration that puts the provider in front of the registry
register_in_front(d, k, v) ==
    << [id |-> k, cls |-> v] >> \o SelectSeq(d, LAMBDA e : e.id # k)

\* d[k] = v on a Python dict: a present key keeps its position
DictSet(d, k, v) ==
    IF HasKey(d, k)
    THEN [i \in 1..Len(d) |-> IF d[i].id = k THEN [id |-> k, cls |-> v] ELSE d[i]]
    ELSE Append(d, [id |-> k, cls |-> v])

\* ModelFactory._models as the class statement leaves it
InitialModels ==
    << [id |-> gemini, cls |-> "GeminiModel"],
       [id |-> openai, cls |-> "OpenAIModel"],
       [id |-> claude, cls |-> "ClaudeModel"] >>

\* ModelFactory._default_models
factory_default_models ==
    (gemini :> "gemini-1.5-flash") @@ (openai :> "gpt-3.5-turbo") @@
    (claude :> "claude-3-haiku-20240307")

\* a create_model that passes the model_name argument on as it came
create_model_without_default(provider, model_name, oid) ==
    LET p == lower(provider) IN
    IF ~ HasKey(models, p) THEN [kind |-> "ValueError", obj |-> NoneModel]
    ELSE LET made == construct(Lookup(models, p), model_name, oid)
         IN CASE made.kind = "ok" -> made
              [] made.kind = "ImportError" -> [kind |-> "ImportError", obj |-> NoneModel]
              [] OTHER -> [kind |-> "RuntimeError", obj |-> NoneModel]

\* ModelFactory.create_model
create_model(provider, model_name, oid) ==
    LET p == lower(provider) IN
    IF ~ HasKey(models, p) THEN [kind |-> "ValueError", obj |-> NoneModel]
    ELSE IF model_name = NoneVal /\ p \notin DOMAIN factory_default_models
    THEN [kind |-> "KeyError", obj |-> NoneModel]
    ELSE LET name == IF model_name = NoneVal THEN factory_default_models[p] ELSE model_name
             made == construct(Lookup(models, p), name, oid)
         IN CASE made.kind = "ok" -> made
              [] made.kind = "ImportError" -> [kind |-> "ImportError", obj |-> NoneModel]
              [] OTHER -> [kind |-> "RuntimeError", obj |-> NoneModel]

\* ModelFactory.create_model, its effect on the secret store: the constructor
\* is reached only for a registered provider with a model name to pass
create_model_secret(provider, model_name, env, entered) ==
    LET p == lower(provider) IN
    IF \/ ~ HasKey(models, p)
       \/ model_name = NoneVal /\ p \notin DOMAIN factory_default_models
    THEN [environ |-> env, prompts |-> 0]
    ELSE construct_secret(Lookup(models, p), env, entered)

\* a class that does not inherit from BaseAIModel
NotAModel == "str"
\* register_model, `issubclass(model_class, BaseAIModel)`
issubclass_BaseAIModel(model_class) == model_class \in Classes

\* ModelFactory.get_available_providers
get_available_providers == [i \in 1..Len(models) |-> models[i].id]

\* ModelFactory.get_provider_models
get_provider_models(provider) ==
    LET p == lower(provider) IN
    IF ~ HasKey(models, p) THEN << >> ELSE get_available_models(Lookup(models, p))

\* ModelFactory.is_provider_available: model_class.__new__ runs no __init__ and
\* imports nothing, so the try block cannot raise ImportError
is_provider_available(provider) == HasKey(models, lower(provider))

----------------------------------------------------------------------------
(* src/universal_chatbot.py *)

max_retries == 3

HumanMessage(n) ==
    [role |-> "human", turn |-> n, by |-> "user", content |-> UserText, synth |-> FALSE]
AIMessage(n, cls, r) ==
    [role |-> "ai", turn |-> n, by |-> cls, content |-> r.content, synth |-> r.synth]

Min(a, b) == IF a < b THEN a ELSE b
Max(a, b) == IF a > b THEN a ELSE b

\* Python's h[start:]
SliceFrom(h, start) ==
    LET n == Len(h)
        s == IF start < 0 THEN Max(n + start, 0) ELSE Min(start, n)
    IN SubSeq(h, s + 1, n)

\* a truncation that keeps the oldest messages instead of the newest
truncate_oldest(h, max_history) ==
    IF Len(h) > max_history THEN SubSeq(h, 1, max_history) ELSE h

\* chat_loop, "Keep conversation history manageable"
truncate(h, max_history) ==
    IF Len(h) > max_history THEN SliceFrom(h, 0 - max_history) ELSE h

\* a retry that appends the pending user message again without popping it
readd_user_message_twice(h) ==
    IF h # << >> /\ h[Len(h)].role = "human" THEN Append(h, h[Len(h)]) ELSE h

\* a retry that pops the pending user message and does not put it back
pop_user_message(h) ==
    IF h # << >> /\ h[Len(h)].role = "human" THEN SubSeq(h, 1, Len(h) - 1) ELSE h

\* chat_loop, the pop and re-append of the pending user message before a retry
readd_user_message(h) ==
    IF h # << >> /\ h[Len(h)].role = "human"
    THEN Append(SubSeq(h, 1, Len(h) - 1), h[Len(h)])
    ELSE h

\* a retry condition that forgets the retry budget
should_switch_unbounded(text, count) == is_quota_error(text)

\* a retry condition that forgets to classify the error
should_switch_any_error(text, count) == count < max_retries - 1

\* chat_loop, the condition under which a failed invoke tries another provider
should_switch(text, count) == is_quota_error(text) /\ count < max_retries - 1

\* chat_loop, the panel of `except Exception as e`
error_panel(text) ==
    [kind |-> IF is_quota_error(text) THEN "quota" ELSE "error", text |-> text]

\* a setup that forgets the adapter it had when both constructions fail
setup_ai_model_resetting(cfg, cur, oid) ==
    LET first == create_model(cfg.provider, cfg.model, oid) IN
    IF first.kind = "ok" THEN first.obj
    ELSE LET fallback == create_model(gemini, NoneVal, oid) IN
         IF fallback.kind = "ok" THEN fallback.obj ELSE NoneModel

\* UniversalChatBot.setup_ai_model: the adapter current_model holds afterwards
setup_ai_model(cfg, cur, oid) ==
    LET first == create_model(cfg.provider, cfg.model, oid) IN
    IF first.kind = "ok" THEN first.obj
    ELSE LET fallback == create_model(gemini, NoneVal, oid) IN
         IF fallback.kind = "ok" THEN fallback.obj ELSE cur

\* auto_switch_provider, the local default_models
default_models ==
    (gemini :> "gemini-1.5-flash") @@ (openai :> "gpt-3.5-turbo") @@
    (claude :> "claude-3-haiku-20240307")

provider_priority == << openai, claude, gemini >>

\* auto_switch_provider, the list available_providers
available_providers(current_provider, exclude_provider) ==
    SelectSeq(get_available_providers,
              LAMBDA p : /\ is_provider_available(p)
                         /\ lower(p) # current_provider
                         /\ lower(p) # lower(exclude_provider))

\* auto_switch_provider, the list prioritized_providers
prioritized_providers(available) ==
    LET byPriority == SelectSeq(provider_priority, LAMBDA q : InSeq(q, available))
    IN byPriority \o SelectSeq(available, LAMBDA p : ~ InSeq(p, byPriority))

\* auto_switch_provider, the loop over prioritized_providers
RECURSIVE try_providers(_, _, _, _, _)
try_providers(todo, cfg, cur, current_provider, oid) ==
    IF todo = << >> THEN [ok |-> FALSE, config |-> cfg, model |-> cur]
    ELSE LET provider == Head(todo)
             cfg1 == [cfg EXCEPT !.provider = provider,
                                 !.model = IF provider \in DOMAIN default_models
                                           THEN default_models[provider] ELSE @]
             m == setup_ai_model(cfg1, cur, oid)
         IN IF m # NoneModel
            THEN [ok |-> TRUE, config |-> cfg1, model |-> m]
            ELSE try_providers(Tail(todo), [cfg1 EXCEPT !.provider = current_provider],
                               m, current_provider, oid)

\* UniversalChatBot.auto_switch_provider (its one caller passes the configured provider)
auto_switch_provider(exclude_provider, cfg, cur, oid) ==
    LET current_provider == lower(cfg.provider)
        available == available_providers(current_provider, exclude_provider)
    IN IF available = << >> THEN [ok |-> FALSE, config |-> cfg, model |-> cur]
       ELSE try_providers(prioritized_providers(available), cfg, cur, current_provider, oid)

----------------------------------------------------------------------------
(* Initial states *)

\* the client of Gemini is imported unconditionally: without it the program
\* does not start
Installs ==
    { f \in [Classes -> {"ok", "nolib", "broken"}] :
        /\ f["GeminiModel"] # "nolib"
        /\ f["OpenAIModel"] # "broken"
        /\ f["ClaudeModel"] # "broken"
        /\ f["GroqModel"] = "ok" }

InitProviders == {gemini, OpenAICased, groq}
InitModelNames == {NoneVal, "gemini-1.5-flash"}
NoPanel == [kind |-> "none", text |-> << >>]
\* an API key exported before the program starts, and what an operator may
\* type at a getpass prompt (nothing, or a key)
ExportedKey == "sk-exported"
EnteredKeys == {"", "sk-entered"}
AllExported == [k \in KeyVariables |-> ExportedKey]
NoCall == [op |-> "none", provider |-> << >>, arg |-> NoneVal, raised |-> NoneVal,
           result |-> NoneVal]

\* no fan-out has been called
NoFanOut ==
    [script |-> NoneVal, members |-> 0, worker |-> << >>, backend |-> << >>,
     future |-> << >>, yielded |-> {}, results |-> << >>, main |-> "idle",
     batch |-> << >>]

\* the process before main runs
Fresh ==
    /\ models = InitialModels
    /\ current_model = NoneModel
    /\ conversation_history = << >>
    /\ message_count = 0
    /\ pc = "new"
    /\ retry_count = 0
    /\ nextOid = 1
    /\ inputs = 0
    /\ attempts = << >>
    /\ preHistory = << >>
    /\ switches = 0
    /\ shown = NoPanel
    /\ full = << >>
    /\ clean = TRUE
    /\ last_call = NoCall
    /\ prompted = [c \in Classes |-> 0]
    /\ fanout = NoFanOut

\* a session started with every API key exported: no construction prompts
Init ==
    /\ install \in Installs
    /\ environ = AllExported
    /\ config \in [provider : InitProviders, model : InitModelNames,
                   max_history : 0..MaxHistoryCap]
    /\ Fresh

\* long sessions of plain turns, every client library installed
HistoryInit ==
    /\ install = [c \in Classes |-> "ok"]
    /\ environ = AllExported
    /\ config \in [provider : {gemini, OpenAICased}, model : {NoneVal},
                   max_history : 0..MaxHistoryDeep]
    /\ Fresh

----------------------------------------------------------------------------
(* Actions *)

Allocated(m, oid) == IF m.oid = oid THEN oid + 1 ELSE oid

\* ModelFactory.register_model with a BaseAIModel subclass, before the session
register_model ==
    /\ pc = "new"
    /\ \E provider \in {groq, GroqCased} :
         /\ issubclass_BaseAIModel("GroqModel")
         /\ models' = DictSet(models, lower(provider), "GroqModel")
    /\ UNCHANGED << install, config, current_model, conversation_history,
                    message_count, pc, retry_count, nextOid, inputs, attempts,
                    preHistory, switches, shown, full, clean, last_call, environ, prompted,
                    fanout >>

\* main: UniversalChatBot() and the entry of chat_loop
main ==
    /\ pc = "new"
    /\ LET m == setup_ai_model(config, NoneModel, nextOid) IN
         /\ current_model' = m
         /\ nextOid' = Allocated(m, nextOid)
         /\ pc' = IF m = NoneModel THEN "exited" ELSE "input"
    /\ UNCHANGED << models, install, config, conversation_history, message_count,
                    retry_count, inputs, attempts, preHistory, switches, shown,
                    full, clean, last_call, environ, prompted,
                    fanout >>

\* chat_loop: a regular message is read and appended
read_message(limit) ==
    /\ pc = "input"
    /\ inputs < limit
    /\ inputs' = inputs + 1
    /\ message_count' = message_count + 1
    /\ conversation_history' = Append(conversation_history, HumanMessage(inputs + 1))
    /\ full' = Append(full, HumanMessage(inputs + 1))
    /\ preHistory' = conversation_history
    /\ retry_count' = 0
    /\ attempts' = << >>
    /\ switches' = 0
    /\ shown' = NoPanel
    /\ pc' = "invoke"
    /\ UNCHANGED << models, install, config, current_model, nextOid, clean, last_call, environ, prompted,
                    fanout >>

user_message == read_message(MaxInputs)

BackendOutcomes ==
    {[ok |-> TRUE, text |-> ReplyText]} \cup {[ok |-> FALSE, text |-> t] : t \in ErrorTexts}

\* chat_loop: the response is appended, shown, and the history truncated
\* (the auto-save in between writes a file and changes nothing here)
Respond(r) ==
    LET msg == AIMessage(inputs, current_model.cls, r) IN
    /\ conversation_history' =
           truncate(Append(conversation_history, msg), config.max_history)
    /\ full' = Append(full, msg)
    /\ shown' = [kind |-> "response", text |-> r.content]
    /\ pc' = "input"
    /\ UNCHANGED << config, current_model, retry_count, nextOid, switches, clean >>

\* an error handler that leaves the chat loop
raise_ends_loop(text) ==
    /\ shown' = error_panel(text)
    /\ pc' = "exited"
    /\ clean' = FALSE
    /\ UNCHANGED << config, current_model, conversation_history, retry_count,
                    nextOid, switches, full >>

\* chat_loop: `raise invoke_error`, caught by `except Exception as e`
Raise(text) ==
    /\ shown' = error_panel(text)
    /\ pc' = "input"
    /\ clean' = FALSE
    /\ UNCHANGED << config, current_model, conversation_history, retry_count,
                    nextOid, switches, full >>

\* chat_loop: auto_switch_provider returned True; the while condition is
\* evaluated again (a None response after the loop fails at response.content)
Retry(sw) ==
    /\ config' = sw.config
    /\ current_model' = sw.model
    /\ nextOid' = Allocated(sw.model, nextOid)
    /\ retry_count' = retry_count + 1
    /\ switches' = switches + 1
    /\ conversation_history' = readd_user_message(conversation_history)
    /\ IF retry_count + 1 < max_retries
       THEN pc' = "invoke" /\ UNCHANGED << shown, clean >>
       ELSE pc' = "input" /\ shown' = error_panel(NoneContentText) /\ clean' = FALSE
    /\ UNCHANGED full

\* chat_loop: one pass of the retry loop
attempt ==
    /\ pc = "invoke"
    /\ \E b \in BackendOutcomes :
         LET r == invoke(current_model.cls, b) IN
         /\ attempts' = Append(attempts,
                [adapter |-> current_model, provider |-> config.provider,
                 model |-> config.model, backend |-> b, result |-> r.kind])
         /\ IF r.kind = "return" THEN Respond(r)
            ELSE IF should_switch(r.content, retry_count)
            THEN LET sw == auto_switch_provider(config.provider, config,
                                                current_model, nextOid)
                 IN IF sw.ok THEN Retry(sw) ELSE Raise(r.content)
            ELSE Raise(r.content)
    /\ UNCHANGED << models, install, message_count, inputs, preHistory, last_call, environ, prompted,
                    fanout >>

\* handle_command: /help, /save, /history, /config, /providers, /models
command ==
    /\ pc = "input"
    /\ inputs < MaxInputs
    /\ inputs' = inputs + 1
    /\ message_count' = message_count + 1
    /\ attempts' = << >>
    /\ shown' = NoPanel
    /\ UNCHANGED << models, install, config, current_model, conversation_history,
                    pc, retry_count, nextOid, preHistory, switches, full, clean,
                    last_call, environ, prompted,
                    fanout >>

\* handle_command: /clear, clear_history
clear_history ==
    /\ pc = "input"
    /\ inputs < MaxInputs
    /\ inputs' = inputs + 1
    /\ \E confirm \in BOOLEAN :
         IF conversation_history # << >> /\ confirm
         THEN /\ conversation_history' = << >>
              /\ message_count' = 0
              /\ clean' = FALSE
         ELSE /\ message_count' = message_count + 1
              /\ UNCHANGED << conversation_history, clean >>
    /\ attempts' = << >>
    /\ shown' = NoPanel
    /\ UNCHANGED << models, install, config, current_model, pc, retry_count,
                    nextOid, preHistory, switches, full, last_call, environ, prompted,
                    fanout >>

\* handle_command: /switch, switch_provider (the operator picks the first or
\* the last model of the catalog)
switch_provider ==
    /\ pc = "input"
    /\ inputs < MaxInputs
    /\ inputs' = inputs + 1
    /\ LET available == SelectSeq(get_available_providers,
                                  LAMBDA p : is_provider_available(p))
       IN \/ \* no provider, or the prompt is interrupted before anything changed
             /\ message_count' = message_count + 1
             /\ UNCHANGED << config, current_model, nextOid, conversation_history, clean >>
          \/ \E choice \in 1..Len(available) :
               LET selected_provider == available[choice]
                   catalog == get_provider_models(selected_provider)
               IN \E model_choice \in {1, Max(Len(catalog), 1)}, confirm \in BOOLEAN :
                    LET selected_model == IF catalog # << >> THEN catalog[model_choice]
                                          ELSE NoneVal
                        cfg1 == [config EXCEPT !.provider = selected_provider,
                                               !.model = IF selected_model # NoneVal
                                                         THEN selected_model ELSE @]
                        m == setup_ai_model(cfg1, current_model, nextOid)
                    IN /\ config' = cfg1
                       /\ current_model' = m
                       /\ nextOid' = Allocated(m, nextOid)
                       /\ IF confirm
                          THEN /\ conversation_history' = << >>
                               /\ message_count' = 0
                               /\ clean' = FALSE
                          ELSE /\ message_count' = message_count + 1
                               /\ UNCHANGED << conversation_history, clean >>
    /\ attempts' = << >>
    /\ shown' = NoPanel
    /\ UNCHANGED << models, install, pc, retry_count, preHistory, switches, full,
                    last_call, environ, prompted,
                    fanout >>

\* handle_command: /quit or /exit
quit ==
    /\ pc = "input"
    /\ pc' = "exited"
    /\ message_count' = message_count + 1
    /\ UNCHANGED << models, install, config, current_model, conversation_history,
                    retry_count, nextOid, inputs, attempts, preHistory, switches,
                    shown, full, clean, last_call, environ, prompted,
                    fanout >>

\* chat_loop: `except KeyboardInterrupt`, at the prompt or during a backend call
keyboard_interrupt ==
    /\ pc \in {"input", "invoke"}
    /\ pc' = "exited"
    /\ UNCHANGED << models, install, config, current_model, conversation_history,
                    message_count, retry_count, nextOid, inputs, attempts,
                    preHistory, switches, shown, full, clean, last_call, environ, prompted,
                    fanout >>

Next ==
    \/ register_model
    \/ main
    \/ user_message
    \/ attempt
    \/ command
    \/ clear_history
    \/ switch_provider
    \/ quit
    \/ keyboard_interrupt

Spec == Init /\ [][Next]_vars

turn_message == read_message(MaxTurns)

HistoryNext ==
    \/ main
    \/ turn_message
    \/ attempt

HistorySpec == HistoryInit /\ [][HistoryNext]_vars

----------------------------------------------------------------------------
(* A client of ModelFactory: the classmethods called directly, in any order *)

\* adapters a client may construct in one run
MaxCreates == 2
\* getpass prompts one adapter class may show in one run
MaxPrompts == 2

mistral == <<"m", "i", "s", "t", "r", "a", "l">>
GeminiUpper == <<"G", "E", "M", "I", "N", "I">>
ClaudeCased == <<"C", "l", "a", "u", "d", "e">>
\* provider strings a client passes to create_model and to the queries
ProviderStrings == {GeminiUpper, OpenAICased, ClaudeCased, GroqCased, openai, mistral}
\* the model_name argument of create_model
ModelNameArgs == {NoneVal, "gpt-4"}
\* the arguments of register_model
RegisterProviders == {groq, GroqCased, OpenAICased}
RegisterClasses == {"GroqModel", "OpenAIModel", NotAModel}

\* every class may lack its client library except Gemini's, imported
\* unconditionally by the package; Gemini's construction may still fail
FactoryInstalls ==
    { f \in [Classes -> {"ok", "nolib", "broken"}] :
        /\ f["GeminiModel"] # "nolib"
        /\ \A c \in Classes \ {"GeminiModel"} : f[c] # "broken" }

\* a client started with every API key exported
FactoryInit ==
    /\ install \in FactoryInstalls
    /\ environ = AllExported
    /\ config = [provider |-> gemini, model |-> NoneVal, max_history |-> 0]
    /\ Fresh

\* what a call leaves untouched: the chat session is not running
SessionIdle ==
    UNCHANGED << install, config, current_model, conversation_history,
                 message_count, pc, retry_count, inputs, attempts, preHistory,
                 switches, shown, full, clean, fanout >>

\* ModelFactory.register_model(provider, model_class)
call_register_model ==
    /\ \E provider \in RegisterProviders, model_class \in RegisterClasses :
         IF ~ issubclass_BaseAIModel(model_class)
         THEN /\ last_call' = [op |-> "register_model", provider |-> provider,
                               arg |-> model_class, raised |-> "TypeError",
                               result |-> NoneVal]
              /\ UNCHANGED models
         ELSE /\ last_call' = [op |-> "register_model", provider |-> provider,
                               arg |-> model_class, raised |-> NoneVal,
                               result |-> NoneVal]
              /\ models' = DictSet(models, lower(provider), model_class)
    /\ UNCHANGED << nextOid, environ, prompted >>
    /\ SessionIdle

\* ModelFactory.create_model(provider, model_name)
call_create_model ==
    /\ nextOid <= MaxCreates
    /\ \E provider \in ProviderStrings, model_name \in ModelNameArgs :
         LET r == create_model(provider, model_name, nextOid) IN
         /\ last_call' = [op |-> "create_model", provider |-> provider,
                          arg |-> model_name,
                          raised |-> IF r.kind = "ok" THEN NoneVal ELSE r.kind,
                          result |-> r.obj]
         /\ nextOid' = Allocated(r.obj, nextOid)
         /\ \E entered \in EnteredKeys :
              LET k == create_model_secret(provider, model_name, environ, entered) IN
              /\ IF k.prompts = 0 THEN TRUE
                 ELSE prompted[Lookup(models, lower(provider))] < MaxPrompts
              /\ environ' = k.environ
              /\ prompted' =
                   IF k.prompts = 0 THEN prompted
                   ELSE [prompted EXCEPT ![Lookup(models, lower(provider))] = @ + k.prompts]
    /\ UNCHANGED models
    /\ SessionIdle

\* ModelFactory.is_provider_available(provider)
call_is_provider_available ==
    /\ \E provider \in ProviderStrings :
         last_call' = [op |-> "is_provider_available", provider |-> provider,
                       arg |-> NoneVal, raised |-> NoneVal,
                       result |-> is_provider_available(provider)]
    /\ UNCHANGED << models, nextOid, environ, prompted >>
    /\ SessionIdle

\* ModelFactory.get_provider_models(provider)
call_get_provider_models ==
    /\ \E provider \in ProviderStrings :
         last_call' = [op |-> "get_provider_models", provider |-> provider,
                       arg |-> NoneVal, raised |-> NoneVal,
                       result |-> get_provider_models(provider)]
    /\ UNCHANGED << models, nextOid, environ, prompted >>
    /\ SessionIdle

\* the ways a backend may cut its reply into fragments
ReplyFragments ==
    { << ReplyText >>,
      << SubSeq(ReplyText, 1, 2), SubSeq(ReplyText, 3, Len(ReplyText)) >>,
      [i \in 1..Len(ReplyText) |-> << ReplyText[i] >>] }

\* self.model.stream(messages): the fragments of the reply, or an error raised
\* by the call
BackendStreams ==
    {[ok |-> TRUE, text |-> ReplyText, fragments |-> f] : f \in ReplyFragments}
    \cup {[ok |-> FALSE, text |-> t, fragments |-> << >>] : t \in ErrorTexts}

\* adapter.stream(history) on the adapter create_model just returned, consumed
\* to exhaustion
call_stream ==
    /\ last_call.op = "create_model"
    /\ last_call.raised = NoneVal
    /\ \E b \in BackendStreams :
         last_call' = [op |-> "stream", provider |-> last_call.provider,
                       arg |-> b, raised |-> NoneVal,
                       result |-> stream(last_call.result.cls, b)]
    /\ UNCHANGED << models, nextOid, environ, prompted >>
    /\ SessionIdle

FactoryNext ==
    \/ call_register_model
    \/ call_create_model
    \/ call_is_provider_available
    \/ call_get_provider_models
    \/ call_stream

FactorySpec == FactoryInit /\ [][FactoryNext]_vars

----------------------------------------------------------------------------
(* The same client started with API keys missing from the environment *)

\* no key exported, or Google's alone
SecretEnvirons ==
    { [k \in KeyVariables |-> NoneVal],
      [k \in KeyVariables |-> IF k = "GOOGLE_API_KEY" THEN ExportedKey ELSE NoneVal] }

\* every client library installed, Anthropic's missing, or Gemini's client
\* failing to build
SecretInstalls ==
    { f \in FactoryInstalls :
        /\ f["OpenAIModel"] = "ok" /\ f["GroqModel"] = "ok"
        /\ f["GeminiModel"] = "ok" \/ f["ClaudeModel"] = "ok" }

SecretInit ==
    /\ install \in SecretInstalls
    /\ environ \in SecretEnvirons
    /\ config = [provider |-> gemini, model |-> NoneVal, max_history |-> 0]
    /\ Fresh

\* ModelFactory.get_available_providers()
call_get_available_providers ==
    /\ last_call' = [op |-> "get_available_providers", provider |-> << >>,
                     arg |-> NoneVal, raised |-> NoneVal,
                     result |-> get_available_providers]
    /\ UNCHANGED << models, nextOid, environ, prompted >>
    /\ SessionIdle

SecretNext ==
    \/ call_register_model
    \/ call_create_model
    \/ call_is_provider_available
    \/ call_get_provider_models
    \/ call_get_available_providers

SecretSpec == SecretInit /\ [][SecretNext]_vars

----------------------------------------------------------------------------
(* src/experimental: the worker-pool fan-out of the demo scripts *)

MaxWorkers == 3

Scripts == {"multi_persona_chat", "ai_swarm_intelligence", "reality_synthesis"}

\* what a worker function hands to its future: a value, or an exception that
\* future.result() raises again in the calling thread
Returned(v) == [raised |-> FALSE, value |-> v]
Escaped(v) == [raised |-> TRUE, value |-> v]

\* a worker function without its try/except: the failure escapes to the future
get_persona_response_unguarded(persona, b) ==
    IF b.ok THEN Returned([member |-> persona, response |-> << b.text >>, error |-> << >>])
    ELSE Escaped([member |-> persona, response |-> << >>, error |-> << b.text >>])

\* get_responses_parallel, get_persona_response: (persona, response, None) or
\* (persona, None, str(e)); None is the empty option
get_persona_response(persona, b) ==
    IF b.ok THEN Returned([member |-> persona, response |-> << b.text >>, error |-> << >>])
    ELSE Returned([member |-> persona, response |-> << >>, error |-> << b.text >>])

\* collect_parallel_contributions, get_contribution: the dict with the member,
\* its response and its error (name, role and specialty are the member's)
get_contribution(member, b) ==
    IF b.ok THEN Returned([member |-> member, response |-> << b.text >>, error |-> << >>])
    ELSE Returned([member |-> member, response |-> << >>, error |-> << b.text >>])

\* analyze_parallel, analyze_layer: (layer_name, analysis), the analysis of a
\* failed layer being the text "Error: ..."
analyze_layer(layer_name, b) ==
    Returned([member |-> layer_name,
              analysis |-> IF b.ok THEN b.text ELSE ErrorPrefix \o b.text])

\* the function submitted to the executor by each script
worker_function(script, member, b) ==
    CASE script = "multi_persona_chat" -> get_persona_response(member, b)
      [] script = "ai_swarm_intelligence" -> get_contribution(member, b)
      [] script = "reality_synthesis" -> analyze_layer(member, b)

\* analyses[layer_name] = analysis
dict_put(d, entry) ==
    IF \E i \in 1..Len(d) : d[i].member = entry.member
    THEN [i \in 1..Len(d) |-> IF d[i].member = entry.member THEN entry ELSE d[i]]
    ELSE Append(d, entry)

\* results.append(future.result()), contributions.append(future.result()),
\* analyses[layer_name] = analysis
collected(script, results, value) ==
    IF script = "reality_synthesis" THEN dict_put(results, value)
    ELSE Append(results, value)

\* every variable but fanout
FanOutFrame ==
    UNCHANGED << models, install, config, current_model, conversation_history,
                 message_count, pc, retry_count, nextOid, inputs, attempts,
                 preHistory, switches, shown, full, clean, last_call, environ,
                 prompted >>

\* the call: ThreadPoolExecutor(max_workers=len(members)) and one
\* executor.submit per member
submit ==
    /\ fanout.main = "idle"
    /\ \E script \in Scripts, n \in 1..MaxWorkers :
         fanout' = [script |-> script, members |-> n,
                    worker |-> [m \in 1..n |-> "queued"],
                    backend |-> [m \in 1..n |-> [ok |-> TRUE, text |-> ReplyText]],
                    future |-> [m \in 1..n |-> Returned(<< >>)],
                    yielded |-> {}, results |-> << >>, main |-> "collect",
                    batch |-> << >>]
    /\ FanOutFrame

\* a pool thread takes a submitted call: there are as many threads as members
worker_start ==
    /\ \E m \in 1..fanout.members :
         /\ fanout.worker[m] = "queued"
         /\ fanout' = [fanout EXCEPT !.worker[m] = "running"]
    /\ FanOutFrame

\* a worker's backend call returns or raises, and its function ends
worker_finish ==
    /\ \E m \in 1..fanout.members, b \in BackendOutcomes :
         /\ fanout.worker[m] = "running"
         /\ fanout' = [fanout EXCEPT !.worker[m] = "done",
                                     !.backend[m] = b,
                                     !.future[m] = worker_function(fanout.script, m, b)]
    /\ FanOutFrame

\* one pass of `for future in as_completed(futures)`: a finished future not
\* yet yielded; an exception held by it is raised by future.result()
collect ==
    /\ fanout.main = "collect"
    /\ \E m \in 1..fanout.members :
         /\ fanout.worker[m] = "done"
         /\ m \notin fanout.yielded
         /\ fanout' =
              IF fanout.future[m].raised
              THEN [fanout EXCEPT !.main = "raised"]
              ELSE [fanout EXCEPT !.yielded = @ \cup {m},
                                  !.results = collected(fanout.script, @,
                                                        fanout.future[m].value)]
    /\ FanOutFrame

\* as_completed is exhausted; the executor is shut down and the batch returned
return_batch ==
    /\ fanout.main = "collect"
    /\ fanout.yielded = 1..fanout.members
    /\ fanout' = [fanout EXCEPT !.main = "returned", !.batch = fanout.results]
    /\ FanOutFrame

FanOutInit ==
    /\ install = [c \in Classes |-> "ok"]
    /\ environ = AllExported
    /\ config = [provider |-> gemini, model |-> NoneVal, max_history |-> 0]
    /\ Fresh

FanOutNext ==
    \/ submit
    \/ worker_start
    \/ worker_finish
    \/ collect
    \/ return_batch

FanOutSpec == FanOutInit /\ [][FanOutNext]_vars

----------------------------------------------------------------------------
(* Properties *)

\* a turn has just ended and the prompt is waiting for the next input
TurnOver == pc = "input" /\ attempts # << >>
LastAttempt == attempts[Len(attempts)]
PendingMessage == HumanMessage(inputs)
Occurrences(h, m) == Cardinality({i \in 1..Len(h) : h[i] = m})
Humans(h) == SelectSeq(h, LAMBDA m : m.role = "human")
\* the messages the turn in progress (or just ended) appended to the history
TurnMessages == SelectSeq(full, LAMBDA m : m.turn = inputs)
QuotaRaised(a) == a.result = "raise" /\ is_quota_error(a.backend.text)
OtherRaised(a) == a.result = "raise" /\ ~ is_quota_error(a.backend.text)

QuotaExceededPhrase == <<"q", "u", "o", "t", "a", " ", "e", "x", "c", "e", "e", "d", "e", "d">>

\* some registered provider other than the adapter's own can be constructed
OtherProviderAvailable(cls) ==
    \E i \in 1..Len(models) : models[i].cls # cls /\ install[models[i].cls] = "ok"

\* the configured provider id is registered with the class of the adapter
ConfiguredIs(provider, adapter) ==
    /\ HasKey(models, lower(provider))
    /\ Lookup(models, lower(provider)) = adapter.cls

\* C1: when the active adapter is that of the configured provider, the first
\* backend call of a turn fails with a text containing "quota exceeded",
\* another provider is available and every later backend call of the turn
\* answers, the turn makes exactly one automatic switch, the
\* reply comes from the replacement provider and the turn appends exactly one
\* Human and one Assistant message.
FailoverOnQuota ==
    ( /\ TurnOver
      /\ ~ attempts[1].backend.ok
      /\ Contains(lower(attempts[1].backend.text), QuotaExceededPhrase)
      /\ ConfiguredIs(attempts[1].provider, attempts[1].adapter)
      /\ OtherProviderAvailable(attempts[1].adapter.cls)
      /\ \A i \in 2..Len(attempts) : attempts[i].backend.ok )
    => /\ switches = 1
       /\ Len(attempts) = 2
       /\ attempts[2].adapter.cls # attempts[1].adapter.cls
       /\ shown = [kind |-> "response", text |-> ReplyText]
       /\ TurnMessages =
            << PendingMessage,
               [role |-> "ai", turn |-> inputs, by |-> attempts[2].adapter.cls,
                content |-> ReplyText, synth |-> FALSE] >>

\* the pending Human message is in the history exactly once, as its last Human message
PendingOnce ==
    /\ Occurrences(conversation_history, PendingMessage) = 1
    /\ Humans(conversation_history)[Len(Humans(conversation_history))] = PendingMessage

\* C2 as stated: at every invoke attempt and at the end of the turn (success
\* or failure) the history holds the turn's Human message exactly once, as
\* its last Human message.
NoDuplicatePending == (pc = "invoke" \/ TurnOver) => PendingOnce

\* C2 as amended: at every invoke attempt and at the end of a failed turn the
\* turn's Human message is the last message of the history and occurs once;
\* at the end of a successful turn it occurs at most once, and exactly once
\* as the last Human message when max_history is 0 (nothing is truncated) or
\* at least 2; max_history = 1 leaves only the Assistant reply.
NoDuplicatePendingAmended ==
    /\ (pc = "invoke" \/ (TurnOver /\ LastAttempt.result = "raise"))
         => /\ PendingOnce
            /\ conversation_history[Len(conversation_history)] = PendingMessage
    /\ (TurnOver /\ LastAttempt.result = "return")
         => /\ Occurrences(conversation_history, PendingMessage) <= 1
            /\ (config.max_history = 0 \/ config.max_history >= 2) => PendingOnce

\* C2 witness: a turn reaches its third invoke attempt after two switches
WitnessPendingAfterTwoSwitches ==
    pc = "invoke" /\ switches = 2 /\ Len(attempts) = 2 /\ PendingOnce

\* C3: in every turn the adapter is invoked at most max_retries times and at
\* most max_retries - 1 automatic switches are made; every pass of the retry
\* loop consumes budget; a turn whose every invoke raised a quota error ends
\* by raising that error.
BoundedRetries ==
    /\ Len(attempts) <= max_retries
    /\ switches <= max_retries - 1
    /\ retry_count <= max_retries - 1
    /\ pc = "invoke" => Len(attempts) = retry_count /\ switches = retry_count
    /\ (TurnOver /\ \A i \in 1..Len(attempts) : QuotaRaised(attempts[i]))
         => /\ shown = [kind |-> "quota", text |-> LastAttempt.backend.text]
            /\ TurnMessages = << PendingMessage >>

\* C3 witness: the budget is used up, three raising invokes and two switches
WitnessBudgetExhausted ==
    /\ TurnOver
    /\ Len(attempts) = max_retries
    /\ switches = max_retries - 1
    /\ \A i \in 1..Len(attempts) : QuotaRaised(attempts[i])

\* C4: an invoke that raises a non-quota error is the last attempt of its
\* turn; the error shown carries exactly its text; the adapter object and the
\* configured provider and model are those the invoke was made with; the
\* history is the pre-turn history plus the Human message.
NonQuotaFailure ==
    /\ \A i \in 1..Len(attempts) :
         OtherRaised(attempts[i]) => i = Len(attempts) /\ pc # "invoke"
    /\ (TurnOver /\ OtherRaised(LastAttempt))
         => /\ shown = [kind |-> "error", text |-> LastAttempt.backend.text]
            /\ current_model = LastAttempt.adapter
            /\ config.provider = LastAttempt.provider
            /\ config.model = LastAttempt.model
            /\ switches = Len(attempts) - 1
            /\ conversation_history = Append(preHistory, PendingMessage)
            /\ TurnMessages = << PendingMessage >>

\* C4 witness: the first invoke of a turn fails with "invalid request body"
WitnessNonQuotaFailure ==
    /\ TurnOver
    /\ Len(attempts) = 1
    /\ OtherRaised(LastAttempt)
    /\ LastAttempt.backend.text = InvalidRequestText
    /\ preHistory # << >>

\* the id an adapter class is registered under
ProviderIdOf(cls) == models[CHOOSE i \in 1..Len(models) : models[i].cls = cls].id
Constructible(p) == HasKey(models, lower(p)) /\ install[Lookup(models, lower(p))] = "ok"
\* attempt i raised a quota error and the turn went on to another invoke
Retried(i) == QuotaRaised(attempts[i]) /\ (i < Len(attempts) \/ pc = "invoke")
\* the adapter the turn went on with after attempt i
AdapterAfter(i) == IF i < Len(attempts) THEN attempts[i + 1].adapter ELSE current_model

\* openai, claude, gemini, then the other registered providers as registered
PreferenceOrder ==
    provider_priority \o
    SelectSeq(get_available_providers, LAMBDA p : ~ InSeq(p, provider_priority))

\* C5: after the active provider P failed with a quota error, and some
\* provider is registered, available and different from P, the adapter used
\* for the retry is that of the first such provider of the preference order.
PriorityOrdering ==
    \A i \in 1..Len(attempts) :
      Retried(i) =>
        LET P == ProviderIdOf(attempts[i].adapter.cls)
            eligible == SelectSeq(PreferenceOrder,
                                  LAMBDA p : Constructible(p) /\ p # P)
        IN eligible # << >> =>
             AdapterAfter(i).cls = Lookup(models, Head(eligible))

\* C6: when the first candidates of an automatic failover cannot be
\* constructed, the retry is made with a new adapter of the first candidate
\* that can be, never with the adapter or the provider that just failed.
TryNextCandidate ==
    \A i \in 1..Len(attempts) :
      Retried(i) =>
        LET candidates == prioritized_providers(
                              available_providers(lower(attempts[i].provider),
                                                  attempts[i].provider))
            buildable == SelectSeq(candidates, Constructible)
        IN /\ buildable # << >> =>
                AdapterAfter(i).cls = Lookup(models, Head(buildable))
           /\ AdapterAfter(i).cls # attempts[i].adapter.cls
           /\ AdapterAfter(i).oid # attempts[i].adapter.oid

\* C7: whenever the session waits for input or invokes the adapter, an
\* adapter is active and the configured provider id and model name are those
\* of that adapter.
AtomicSwitch ==
    pc \in {"input", "invoke"} =>
      /\ current_model # NoneModel
      /\ ConfiguredIs(config.provider, current_model)
      /\ IF config.model = NoneVal
         THEN /\ lower(config.provider) \in DOMAIN factory_default_models
              /\ current_model.model_name = factory_default_models[lower(config.provider)]
         ELSE current_model.model_name = config.model

\* C8: an invoke whose backend call fails raises, and no Assistant message
\* of the history was synthesised from an error.
AdaptersDoNotSwallow ==
    /\ \A i \in 1..Len(attempts) :
         ~ attempts[i].backend.ok => attempts[i].result = "raise"
    /\ \A j \in 1..Len(conversation_history) : ~ conversation_history[j].synth

\* C9: after N turns that all succeeded, with max_history >= 1, the history
\* is the newest min(2N, max_history) messages of the conversation, in order.
HistoryIntegrity ==
    (pc = "input" /\ clean /\ config.max_history >= 1) =>
      LET n == Len(full)
          N == Len(Humans(full))
          k == Min(2 * N, config.max_history)
      IN /\ n = 2 * N
         /\ Len(conversation_history) = k
         /\ conversation_history = SubSeq(full, n - k + 1, n)

\* C9 witness: max_history = 4 and four successful turns leave the last 4 of 8
WitnessFourOfEight ==
    /\ pc = "input" /\ clean
    /\ config.max_history = 4
    /\ inputs = 4
    /\ Len(full) = 8
    /\ Len(conversation_history) = 4
    /\ conversation_history[1] = HumanMessage(3)

\* C10: whenever the session waits for input the history holds at most
\* max_history messages.
HistoryCap == pc = "input" => Len(conversation_history) <= config.max_history

\* the last two messages of the history are both Human messages
TwoHumansAtTail ==
    LET n == Len(conversation_history) IN
    /\ n >= 2
    /\ conversation_history[n].role = "human"
    /\ conversation_history[n - 1].role = "human"

\* C11: whenever the session waits for input, also after turns that failed,
\* the history does not end with two Human messages in a row.
NoTwoHumansInARow == pc = "input" => ~ TwoHumansAtTail

\* a later attempt of the turn answered, on an adapter of another provider
SucceededAfterSwitch(i) ==
    \E j \in (i + 1)..Len(attempts) :
      /\ attempts[j].backend.ok
      /\ attempts[j].result = "return"
      /\ attempts[j].adapter.cls # attempts[i].adapter.cls

\* the turn ended on an error panel whose message contains the text
EndedRaising(text) == shown.kind \in {"quota", "error"} /\ Contains(shown.text, text)

\* C12: at the end of a turn, for every attempt whose backend call failed
\* (a failed construction of a replacement adapter always follows such an
\* attempt), either a later attempt answered after a provider switch or the
\* turn ended on an error whose message contains the text of the last error.
ErrorPropagation ==
    TurnOver =>
      \A i \in 1..Len(attempts) :
        ~ attempts[i].backend.ok =>
          \/ SucceededAfterSwitch(i)
          \/ ~ LastAttempt.backend.ok /\ EndedRaising(LastAttempt.backend.text)

\* the adapter class was invoked in the turn and its backend call failed with
\* a quota-classified error
QuotaFailedInTurn(cls) ==
    \E i \in 1..Len(attempts) :
      /\ attempts[i].adapter.cls = cls
      /\ ~ attempts[i].backend.ok
      /\ is_quota_error(attempts[i].backend.text)

\* C13: the quota panel ends a turn only if every registered provider whose
\* client library is installed was invoked in the turn and failed with a
\* quota error; a turn that ends on a single non-quota error shows the
\* generic error panel.
QuotaGuidanceTruthful ==
    /\ (TurnOver /\ shown.kind = "quota")
         => \A k \in 1..Len(models) :
              install[models[k].cls] # "nolib" => QuotaFailedInTurn(models[k].cls)
    /\ (TurnOver /\ Len(attempts) = 1 /\ OtherRaised(LastAttempt))
         => shown.kind = "error"

\* C14: a pass of the retry loop that ends its turn on an error returns to
\* the input prompt, no pass of the loop ends the session, and every turn
\* that is read at the prompt starts with an empty attempt log, no switch
\* made and retry_count = 0.
FatalIsPerTurn ==
    [][ /\ (pc = "invoke" /\ attempts' # attempts)
             => /\ pc' \in {"input", "invoke"}
                /\ shown'.kind \in {"quota", "error"} => pc' = "input"
        /\ (pc = "input" /\ pc' = "invoke")
             => retry_count' = 0 /\ switches' = 0 /\ attempts' = << >> ]_vars

\* C14 witness: the turn after a failed turn used a whole retry budget of its own
WitnessFreshBudgetAfterFailure ==
    /\ TurnOver
    /\ inputs = 2
    /\ Len(attempts) = max_retries
    /\ Len(full) >= 2
    /\ full[1] = HumanMessage(1)
    /\ full[2] = HumanMessage(2)

\* C15: a step that leaves the retry loop without an invoke having returned
\* or raised (the operator interrupted the blocking call) returns to the
\* input prompt and leaves the history as it was, the pending Human message
\* at its end.
CancellationAbortsTurnOnly ==
    [][ (pc = "invoke" /\ pc' # "invoke" /\ attempts' = attempts)
          => /\ pc' = "input"
             /\ conversation_history' = conversation_history
             /\ conversation_history[Len(conversation_history)] = PendingMessage ]_vars

\* the class registered under the provider string of the last call
CalledClass == Lookup(models, lower(last_call.provider))
CalledRegistered == HasKey(models, lower(last_call.provider))

\* C16: a create_model call returns an adapter or raises ValueError,
\* ImportError or RuntimeError: ValueError iff the lower-cased id is not
\* registered, ImportError iff the client library of the registered class is
\* missing, RuntimeError iff its construction fails otherwise.
ClassifiedConstructionErrors ==
    last_call.op = "create_model" =>
      /\ last_call.raised \in {NoneVal, "ValueError", "ImportError", "RuntimeError"}
      /\ last_call.raised = "ValueError" <=> ~ CalledRegistered
      /\ CalledRegistered =>
           /\ last_call.raised = "ImportError" <=> install[CalledClass] = "nolib"
           /\ last_call.raised = "RuntimeError" <=> install[CalledClass] = "broken"
      /\ last_call.raised = NoneVal <=> last_call.result # NoneModel

\* C17: a create_model call for gemini, openai or claude, in any letter
\* case, that constructs an adapter gives it the provider's default model
\* name when the model name was omitted, and the given name otherwise.
DefaultModel ==
    ( /\ last_call.op = "create_model"
      /\ last_call.raised = NoneVal
      /\ lower(last_call.provider) \in {gemini, openai, claude} )
    => /\ last_call.result.cls = CalledClass
       /\ last_call.result.model_name =
            IF last_call.arg = NoneVal
            THEN CASE lower(last_call.provider) = gemini -> "gemini-1.5-flash"
                   [] lower(last_call.provider) = openai -> "gpt-3.5-turbo"
                   [] lower(last_call.provider) = claude -> "claude-3-haiku-20240307"
            ELSE last_call.arg

\* C17 witness: create_model("OpenAI") constructed an adapter for gpt-3.5-turbo
WitnessDefaultOfCasedId ==
    /\ last_call.op = "create_model"
    /\ last_call.provider = OpenAICased
    /\ last_call.arg = NoneVal
    /\ last_call.result.cls = "OpenAIModel"
    /\ last_call.result.model_name = "gpt-3.5-turbo"

\* C18: an is_provider_available call answers true iff the lower-cased id is
\* registered and the client library of its class can be loaded.
AvailabilityQuery ==
    last_call.op = "is_provider_available" =>
      (last_call.result <=> (CalledRegistered /\ install[CalledClass] # "nolib"))

\* C19: a get_provider_models call returns the catalog of the class for a
\* registered provider whose client library can be loaded, and the empty
\* list for an unknown provider and for one whose library is missing.
ModelCatalogQuery ==
    last_call.op = "get_provider_models" =>
      last_call.result =
        IF CalledRegistered /\ install[CalledClass] # "nolib"
        THEN get_available_models(CalledClass)
        ELSE << >>

\* the registry after a step answers every create_model with a model name
\* for the id by an instance of the class, or by the error of its constructor
CreatesInstanceOf(p, C) ==
    \A m \in ModelNameArgs \ {NoneVal} :
      LET r == create_model(p, m, nextOid) IN
      /\ r.kind \in {"ok", "ImportError", "RuntimeError"}
      /\ r.kind = "ok" <=> install[C] = "ok"
      /\ r.kind = "ok" => r.obj.cls = C /\ r.obj.model_name = m

AllAdaptersCreatable ==
    ( /\ last_call.op = "create_model"
      /\ lower(last_call.provider) = groq
      /\ install["GroqModel"] = "ok" )
    => /\ InSeq(groq, get_available_providers)
       /\ last_call.raised = NoneVal
       /\ last_call.result.cls = "GroqModel"
       /\ last_call.arg = NoneVal => last_call.result.model_name = "llama3-8b-8192"

\* C22: in one process no adapter class prompts for its secret more than
\* once, whatever the operator entered at the prompt.
SecretAskedOnce == \A c \in Classes : prompted[c] <= 1

\* C23: a step writes a variable of the secret store only as a create_model
\* call whose provider is registered with the class that reads the variable,
\* and only when the variable was unset or empty; a variable holding a key is
\* never changed, and no query or registration writes the store.
SecretStoreFrame ==
    [][ \A k \in KeyVariables :
          environ'[k] # environ[k] =>
            /\ last_call'.op = "create_model"
            /\ HasKey(models, lower(last_call'.provider))
            /\ k = api_key_variable(Lookup(models, lower(last_call'.provider)))
            /\ environ[k] \in {NoneVal, ""} ]_vars

\* C23 witness: a key was entered for OpenAI while Google's exported key and
\* the unset keys of the other families stayed as they were
WitnessOnlyOwnSecretWritten ==
    /\ last_call.op = "create_model"
    /\ last_call.provider = OpenAICased
    /\ prompted["OpenAIModel"] = 1
    /\ environ["OPENAI_API_KEY"] = "sk-entered"
    /\ environ["GOOGLE_API_KEY"] = ExportedKey
    /\ environ["ANTHROPIC_API_KEY"] = NoneVal
    /\ environ["GROQ_API_KEY"] = NoneVal

\* a step that read a command at the prompt
CommandStep == pc = "input" /\ pc' = "input" /\ inputs' = inputs + 1

\* C24: a step that replaces the active adapter or the configured provider,
\* automatically during a turn or by the switch command, leaves the history
\* and message_count (but for the count of the command just read) as they
\* were, or empties the history and resets message_count to 0 together, and
\* the latter only in a command step; no other step empties a history.
SwitchPreservesConversation ==
    [][ /\ (current_model' # current_model \/ config' # config) =>
             \/ /\ conversation_history' = conversation_history
                /\ message_count' = IF CommandStep THEN message_count + 1
                                    ELSE message_count
             \/ /\ CommandStep
                /\ conversation_history' = << >>
                /\ message_count' = 0
        /\ (conversation_history # << >> /\ conversation_history' = << >>) =>
             CommandStep /\ message_count' = 0 ]_vars

\* C24 witness: an automatic switch in the second turn kept the first turn's
\* two messages and the pending third
WitnessHistoryKeptAcrossAutoSwitch ==
    /\ pc = "invoke"
    /\ switches = 1
    /\ inputs = 2
    /\ message_count = 2
    /\ attempts[1].adapter # current_model
    /\ Len(conversation_history) = 3
    /\ conversation_history[3] = PendingMessage

RECURSIVE Concat(_)
\* the concatenation of a sequence of fragments
Concat(fragments) ==
    IF fragments = << >> THEN << >> ELSE Head(fragments) \o Concat(Tail(fragments))

\* C25: when the backend's stream call succeeds, the fragments a consumer
\* receives from adapter.stream concatenate to the backend's full reply.
StreamReconstructsReply ==
    (last_call.op = "stream" /\ last_call.arg.ok) =>
      /\ Concat(last_call.arg.fragments) = last_call.arg.text
      /\ Concat(last_call.result) = last_call.arg.text

\* C26: a True result of auto_switch_provider (the turn went on to another
\* invoke) means the active adapter was replaced by a newly constructed
\* adapter of a provider other than the one configured before the call,
\* which is also the excluded one.
AutoSwitchReportsTruth ==
    \A i \in 1..Len(attempts) :
      Retried(i) =>
        /\ AdapterAfter(i).oid # attempts[i].adapter.oid
        /\ ProviderIdOf(AdapterAfter(i).cls) # lower(attempts[i].provider)

\* the provider the configuration names after the switch that followed attempt i
ProviderAfter(i) == IF i < Len(attempts) THEN attempts[i + 1].provider ELSE config.provider

\* C27: after an automatic switch selected provider P (no model is chosen by
\* the operator), the adapter the turn goes on with has P's default model.
DefaultModelOnSwitch ==
    \A i \in 1..Len(attempts) :
      Retried(i) =>
        /\ lower(ProviderAfter(i)) \in DOMAIN factory_default_models
        /\ AdapterAfter(i).model_name = factory_default_models[lower(ProviderAfter(i))]

\* the result member m owes the batch, given how its backend call ended
OwnResult(m) == worker_function(fanout.script, m, fanout.backend[m]).value

\* C28: the fan-out never raises; what has been collected is one result for
\* each future yielded so far; and the batch is returned only when every
\* worker has finished, holding for each member exactly one result, its own
\* response or its own error.
FanOutCollectsAll ==
    /\ fanout.main # "raised"
    /\ Len(fanout.results) = Cardinality(fanout.yielded)
    /\ \A m \in fanout.yielded :
         \E i \in 1..Len(fanout.results) : fanout.results[i] = OwnResult(m)
    /\ fanout.main = "returned" =>
         /\ \A m \in 1..fanout.members : fanout.worker[m] = "done"
         /\ Len(fanout.batch) = fanout.members
         /\ \A m \in 1..fanout.members :
              Cardinality({i \in 1..Len(fanout.batch) : fanout.batch[i].member = m}) = 1
         /\ \A i \in 1..Len(fanout.batch) :
              fanout.batch[i] = OwnResult(fanout.batch[i].member)

\* C28 witness: a batch of three, returned in an order other than that of
\* submission, in which the first member failed and the others did not
WitnessBatchWithFailedWorker ==
    /\ fanout.main = "returned"
    /\ fanout.script = "multi_persona_chat"
    /\ fanout.members = 3
    /\ ~ fanout.backend[1].ok /\ fanout.backend[2].ok /\ fanout.backend[3].ok
    /\ fanout.batch[1].member = 3
    /\ fanout.batch[2].member = 1
    /\ fanout.batch[2].error = << QuotaExceededText >>
    /\ fanout.batch[3].response = << ReplyText >>

\* C29: the chat loop is entered only with an adapter and left at once
\* without one; the session reads input and invokes only while an adapter is
\* active; an active adapter is never replaced by None, and a step that
\* constructs no adapter leaves the active one in place.
AdapterAlwaysPresent ==
    [][ /\ (pc = "new" /\ pc' # "new") =>
             pc' = IF current_model' = NoneModel THEN "exited" ELSE "input"
        /\ pc' \in {"input", "invoke"} => current_model' # NoneModel
        /\ current_model # NoneModel =>
             /\ current_model' # NoneModel
             /\ nextOid' = nextOid => current_model' = current_model ]_vars

\* C29 witness: after /switch to Claude, whose client is not installed, with
\* Gemini failing to construct, the OpenAI adapter of start-up is still active
WitnessAdapterKeptAfterFailedSwitch ==
    /\ pc = "input" /\ inputs = 1 /\ attempts = << >>
    /\ install["ClaudeModel"] = "nolib" /\ install["GeminiModel"] = "broken"
    /\ lower(config.provider) = claude
    /\ current_model.cls = "OpenAIModel" /\ current_model.oid = 1
    /\ nextOid = 2

\* C30: the providers invoked during one turn are pairwise distinct: no
\* adapter class is invoked again after its invoke failed in the same turn.
NoProviderTriedTwice ==
    \A i, j \in 1..Len(attempts) :
      i < j => attempts[i].adapter.cls # attempts[j].adapter.cls

====
